---- MODULE Spec2Model ----
(***************************************************************************)
(* SessionPersistenceService (api/src/services/session-persistence.service *)
(* .ts) and the plugin that owns it (api/src/plugins/browser-session.ts),  *)
(* as a state machine over a Redis-like store.                             *)
(*                                                                         *)
(* Every `await` of a store command is one suspension point: a caller that *)
(* issued a command sits at a pc until the store answers (the command then *)
(* takes effect atomically) or the round-trip is rejected.  Several        *)
(* callers may be in flight at once.                                       *)
(***************************************************************************)
EXTENDS Integers, Sequences, FiniteSets, TLC

VARIABLES
    enabled,    \* this.enabled
    client,     \* this.client !== null
    sock,       \* the client's socket: none, connecting, ready, reconnecting, closed
    retries,    \* failed attempts of the running (re)connect loop
    plugin,     \* browserSessionPlugin: constructed, connecting, registered, closing, closed
    life,       \* how connect() and disconnect() ended: none, normal, error
    store,      \* the store: key -> [val, exp], only the keys that exist
    now,        \* the clock, in seconds
    calls,      \* per caller: the operation in flight, its locals and its result
    hist,       \* sequential runs: the operation completed before the current one
    lastMut,    \* sequential runs: per userId, the last save or delete that completed
    lastSave    \* concurrent runs: per userId, the payload of the save that wrote last

vars == <<enabled, client, sock, retries, plugin, life, store, now, calls, hist, lastMut,
          lastSave>>

----------------------------------------------------------------------------
(* Bounds of the model *)

NumCallers == 2
MaxTicks == 1
MaxJumps == 1

Callers == 1..NumCallers
UserIds == {"u1", "u2"}

----------------------------------------------------------------------------
(* Program constants *)

SESSION_PREFIX == "steel:session:"
SESSION_TTL == 60 * 60 * 24 * 30
MaxRetries == 10
RetryStep == 100
RetryCeiling == 3000

----------------------------------------------------------------------------
(* JavaScript values, tagged by type *)

Undefined == [t |-> "undefined"]
Null == [t |-> "null"]
NaN == [t |-> "NaN"]
Str(s) == [t |-> "string", v |-> s]
Num(n) == [t |-> "number", v |-> n]
Obj(f) == [t |-> "object", v |-> f]
\* new Date().toISOString(): ISO-8601 UTC strings order as the instants do
Time(n) == [t |-> "string", iso |-> n]

\* obj[k] of a JavaScript object: a missing property reads as undefined
Prop(obj, k) == IF k \in DOMAIN obj THEN obj[k] ELSE Undefined
\* obj[k] = v
SetProp(obj, k, v) == (k :> v) @@ obj

\* What JSON.stringify writes for a value: NaN becomes null, a property
\* whose value is undefined is left out, objects are serialised recursively.
RECURSIVE jsonValue(_)
jsonValue(v) ==
    CASE v.t = "NaN" -> Null
      [] v.t = "object" ->
            Obj([k \in {j \in DOMAIN v.v : v.v[j].t # "undefined"} |-> jsonValue(v.v[k])])
      [] OTHER -> v

\* JSON.stringify(record): the text, kept as its syntax tree
JSONstringify(obj) ==
    [kind |-> "json",
     props |-> [k \in {j \in DOMAIN obj : obj[j].t # "undefined"} |-> jsonValue(obj[k])]]

\* A stored string that is not JSON: JSON.parse throws SyntaxError on it
Garbage == [kind |-> "garbage"]

parseThrows(text) == text.kind # "json"
JSONparse(text) == text.props

----------------------------------------------------------------------------
(* Inputs *)

PayloadA == [sessionData |-> Str("dataA"), fingerprint |-> Undefined, userAgent |-> Undefined]
PayloadB == [sessionData |-> Str("dataB"),
             fingerprint |-> Obj([canvas |-> Num(1)]),
             userAgent |-> Str("ua1")]
\* fingerprint is Record<string, any>: a value JSON cannot represent
PayloadN == [sessionData |-> Str("dataA"),
             fingerprint |-> Obj([canvas |-> NaN]),
             userAgent |-> Str("ua1")]
Payloads == {PayloadA, PayloadB, PayloadN}

----------------------------------------------------------------------------
(* Results of the public operations *)

ResNone == [t |-> "none"]
ResVoid == [t |-> "void"]
ResNull == [t |-> "null"]
ResRecord(r) == [t |-> "record", v |-> r]
ResBool(b) == [t |-> "boolean", v |-> b]
ResList(l) == [t |-> "list", v |-> l]
ResError == [t |-> "error"]

NoObj == << >>
NoPayload == [sessionData |-> Undefined, fingerprint |-> Undefined, userAgent |-> Undefined]

Idle == [op |-> "idle", pc |-> "idle", userId |-> "", payload |-> NoPayload, at |-> 0,
         data |-> NoObj, parsed |-> NoObj, result |-> ResNone, wasEnabled |-> FALSE,
         log |-> ""]

PayloadsJSON == {PayloadA, PayloadB}

Pending == {"get", "refresh", "write", "del", "exists", "keys"}

----------------------------------------------------------------------------
(* The store (Redis) *)

\* SETEX key seconds value
setEx(s, key, ttl, val) == (key :> [val |-> val, exp |-> now + ttl]) @@ s
\* DEL key
del(s, key) == [k \in DOMAIN s \ {key} |-> s[k]]
\* EXISTS key
exists(s, key) == IF key \in DOMAIN s THEN 1 ELSE 0
\* TTL key: the seconds the key has left
ttlOf(s, key) == s[key].exp - now

StartsWith(str, pre) == Len(str) >= Len(pre) /\ SubSeq(str, 1, Len(pre)) = pre
\* KEYS pattern*, for a pattern that is a literal prefix followed by *
keys(s, prefix) == {k \in DOMAIN s : StartsWith(k, prefix)}

\* every order in which the store may return a set of keys
Orders(S) == {q \in [1..Cardinality(S) -> S] : \A i, j \in 1..Cardinality(S) : q[i] = q[j] => i = j}

\* String.prototype.replace(pattern, replacement) with a string pattern:
\* the first occurrence only
Replace(str, pat, rep) ==
    LET hits == {i \in 1..(Len(str) - Len(pat) + 1) : SubSeq(str, i, i + Len(pat) - 1) = pat}
    IN  IF hits = {} THEN str
        ELSE LET i == CHOOSE h \in hits : \A g \in hits : h <= g
             IN  SubSeq(str, 1, i - 1) \o rep \o SubSeq(str, i + Len(pat), Len(str))

----------------------------------------------------------------------------
(* SessionPersistenceService *)

\* RedisSocket.isOpen: set when connect() starts, cleared when quit() is called
\* (before QUIT is answered) or the reconnect strategy gives up
isOpen == sock \in {"connecting", "ready", "reconnecting"} /\ plugin \notin {"closing", "closed"}

isEnabled == enabled /\ client /\ isOpen

\* getSessionKey that leaves the userId out
getSessionKeyShared(userId) == SESSION_PREFIX

getSessionKey(userId) == SESSION_PREFIX \o userId

\* reconnectStrategy without the `if (retries > 10)`
reconnectStrategyForever(r) ==
    IF r * RetryStep < RetryCeiling THEN r * RetryStep ELSE RetryCeiling

\* reconnectStrategy(retries): a delay in ms, or -1 for the Error that ends retrying
reconnectStrategy(r) ==
    IF r > MaxRetries THEN -1
    ELSE IF r * RetryStep < RetryCeiling THEN r * RetryStep ELSE RetryCeiling

\* newData without the fingerprint
newDataNoFingerprint(userId, payload, t) ==
    [userId |-> Str(userId),
     sessionData |-> payload.sessionData,
     fingerprint |-> Undefined,
     userAgent |-> payload.userAgent,
     lastAccessed |-> Time(t),
     createdAt |-> Time(t)]

\* the record saveSession builds before it looks for an existing one
newData(userId, payload, t) ==
    [userId |-> Str(userId),
     sessionData |-> payload.sessionData,
     fingerprint |-> payload.fingerprint,
     userAgent |-> payload.userAgent,
     lastAccessed |-> Time(t),
     createdAt |-> Time(t)]

\* preserveCreatedAt without the assignment
resetCreatedAt(data, existing) == data

\* if (existing) data.createdAt = existing.createdAt
preserveCreatedAt(data, existing) ==
    IF existing.t = "record"
    THEN SetProp(data, "createdAt", Prop(existing.v, "createdAt"))
    ELSE data

\* parsed.lastAccessed = new Date().toISOString()
touch(parsed, t) == SetProp(parsed, "lastAccessed", Time(t))

\* the operation returns r; msg is the last line it logged
done(c, r, msg) == [c EXCEPT !.pc = "done", !.result = r, !.log = msg]

\* saveSession after `await this.getSession(userId)`
saveSessionResume(c, existing, msg) ==
    [c EXCEPT !.pc = "write", !.data = preserveCreatedAt(c.data, existing), !.log = msg]

\* getSession returns r: to its caller, or into the saveSession that awaits it
getSessionReturn(c, r, msg) ==
    IF c.op = "getSession" THEN done(c, r, msg) ELSE saveSessionResume(c, r, msg)

\* getSession without its catch: the error reaches the caller (inside
\* saveSession, saveSession's own catch)
getSessionRethrow(c) ==
    IF c.op = "getSession" THEN done(c, ResError, "")
    ELSE done(c, ResVoid, "Failed to save session data")

\* the catch blocks
getSessionCatch(c) == getSessionReturn(c, ResNull, "Failed to retrieve session data")
saveSessionCatch(c) == done(c, ResVoid, "Failed to save session data")
deleteSessionCatch(c) == done(c, ResVoid, "Failed to delete session data")
hasSessionCatch(c) == done(c, ResBool(FALSE), "Failed to check session existence")
listSessionsCatch(c) == done(c, ResList(<< >>), "Failed to list sessions")

\* getSession up to its first await
getSessionEnter(c) ==
    IF ~isEnabled
    THEN getSessionReturn(c, ResNull, "Session persistence is disabled, skipping get")
    ELSE [c EXCEPT !.pc = "get"]

\* getSessionRead that reads a missing key as an empty object
getSessionReadDefault(c, s, t) ==
    LET key == getSessionKey(c.userId)
    IN  IF key \notin DOMAIN s THEN [c EXCEPT !.pc = "refresh", !.parsed = touch(NoObj, t)]
        ELSE IF parseThrows(s[key].val) THEN getSessionCatch(c)
        ELSE [c EXCEPT !.pc = "refresh", !.parsed = touch(JSONparse(s[key].val), t)]

\* getSession from the reply to GET up to its setEx: s is the store, t the time
getSessionRead(c, s, t) ==
    LET key == getSessionKey(c.userId)
    IN  IF key \notin DOMAIN s THEN getSessionReturn(c, ResNull, "No persisted session found")
        ELSE IF parseThrows(s[key].val) THEN getSessionCatch(c)
        ELSE [c EXCEPT !.pc = "refresh", !.parsed = touch(JSONparse(s[key].val), t)]

\* refreshWrite that rewrites the value and keeps the time the key had left
refreshKeepTtl(s, key, parsed) ==
    (key :> [val |-> JSONstringify(parsed),
             exp |-> IF key \in DOMAIN s THEN s[key].exp ELSE now + SESSION_TTL]) @@ s

\* this.client.setEx(key, this.SESSION_TTL, JSON.stringify(parsed)) of getSession
refreshWrite(s, key, parsed) == setEx(s, key, SESSION_TTL, JSONstringify(parsed))

\* this.client.setEx(key, this.SESSION_TTL, JSON.stringify(data)) of saveSession
saveWrite(s, key, data) == setEx(s, key, SESSION_TTL, JSONstringify(data))

begin(op, userId, payload) ==
    [Idle EXCEPT !.op = op, !.userId = userId, !.payload = payload, !.at = now,
                 !.wasEnabled = isEnabled]

saveSession(userId, payload) ==
    LET c == begin("saveSession", userId, payload)
    IN  IF ~isEnabled THEN done(c, ResVoid, "Session persistence is disabled, skipping save")
        ELSE getSessionEnter([c EXCEPT !.data = newData(userId, payload, now)])

getSession(userId) == getSessionEnter(begin("getSession", userId, NoPayload))

\* deleteSession that returns without sending DEL
deleteSessionSkip(userId) ==
    LET c == begin("deleteSession", userId, NoPayload)
    IN  IF ~isEnabled THEN done(c, ResVoid, "Session persistence is disabled, skipping delete")
        ELSE done(c, ResVoid, "Session data deleted from Redis")

deleteSession(userId) ==
    LET c == begin("deleteSession", userId, NoPayload)
    IN  IF ~isEnabled THEN done(c, ResVoid, "Session persistence is disabled, skipping delete")
        ELSE [c EXCEPT !.pc = "del"]

\* hasSession without the isEnabled() check
hasSessionUnguarded(userId) == [begin("hasSession", userId, NoPayload) EXCEPT !.pc = "exists"]

hasSession(userId) ==
    LET c == begin("hasSession", userId, NoPayload)
    IN  IF ~isEnabled THEN done(c, ResBool(FALSE), "") ELSE [c EXCEPT !.pc = "exists"]

listSessions ==
    LET c == begin("listSessions", "", NoPayload)
    IN  IF ~isEnabled THEN done(c, ResList(<< >>), "") ELSE [c EXCEPT !.pc = "keys"]

\* stripPrefix that returns the keys as they are
keepPrefix(ks) == ks

\* keys.map((key) => key.replace(this.SESSION_PREFIX, ""))
stripPrefix(ks) == [i \in DOMAIN ks |-> Replace(ks[i], SESSION_PREFIX, "")]

----------------------------------------------------------------------------
(* Actions: calls *)

conn == <<enabled, client, sock, retries, plugin, life>>

\* Caller p, holding no call or the result of its last one, calls an
\* operation.  The services are registered once connect() has returned.
Call(p, P) ==
    /\ plugin \in {"registered", "closing", "closed"}
    /\ calls[p].pc \in {"idle", "done"}
    /\ \/ \E u \in UserIds, pl \in P : calls' = [calls EXCEPT ![p] = saveSession(u, pl)]
       \/ \E u \in UserIds : calls' = [calls EXCEPT ![p] = getSession(u)]
       \/ \E u \in UserIds : calls' = [calls EXCEPT ![p] = deleteSession(u)]
       \/ \E u \in UserIds : calls' = [calls EXCEPT ![p] = hasSession(u)]
       \/ calls' = [calls EXCEPT ![p] = listSessions]
    /\ UNCHANGED <<conn, store, now>>

----------------------------------------------------------------------------
(* Actions: the store answers a command *)

\* await this.client.get(key), then the synchronous code up to the setEx
GetReply(p) ==
    LET c == calls[p]
    IN  /\ c.pc = "get"
        /\ sock = "ready"
        /\ calls' = [calls EXCEPT ![p] = getSessionRead(c, store, now)]
        /\ UNCHANGED <<conn, store, now>>

\* await this.client.setEx(key, SESSION_TTL, JSON.stringify(parsed)); return parsed
RefreshReply(p) ==
    LET c == calls[p]
        key == getSessionKey(c.userId)
    IN  /\ c.pc = "refresh"
        /\ sock = "ready"
        /\ store' = refreshWrite(store, key, c.parsed)
        /\ calls' = [calls EXCEPT ![p] =
                getSessionReturn(c, ResRecord(c.parsed), "Session data retrieved from Redis")]
        /\ UNCHANGED <<conn, now>>

\* await this.client.setEx(key, SESSION_TTL, JSON.stringify(data))
WriteReply(p) ==
    LET c == calls[p]
        key == getSessionKey(c.userId)
    IN  /\ c.pc = "write"
        /\ sock = "ready"
        /\ store' = saveWrite(store, key, c.data)
        /\ calls' = [calls EXCEPT ![p] = done(c, ResVoid, "Session data saved to Redis")]
        /\ UNCHANGED <<conn, now>>

\* await this.client.del(key)
DelReply(p) ==
    LET c == calls[p]
    IN  /\ c.pc = "del"
        /\ sock = "ready"
        /\ store' = del(store, getSessionKey(c.userId))
        /\ calls' = [calls EXCEPT ![p] = done(c, ResVoid, "Session data deleted from Redis")]
        /\ UNCHANGED <<conn, now>>

\* ExistsReply that also renews the expiry of the key it finds
ExistsReplyTouch(p) ==
    LET c == calls[p]
        key == getSessionKey(c.userId)
    IN  /\ c.pc = "exists"
        /\ sock = "ready"
        /\ store' = IF key \in DOMAIN store
                    THEN setEx(store, key, SESSION_TTL, store[key].val)
                    ELSE store
        /\ calls' = [calls EXCEPT ![p] = done(c, ResBool(exists(store, key) = 1), "")]
        /\ UNCHANGED <<enabled, client, sock, retries, plugin, life, now>>

\* const exists = await this.client.exists(key); return exists === 1
ExistsReply(p) ==
    LET c == calls[p]
    IN  /\ c.pc = "exists"
        /\ sock = "ready"
        /\ calls' = [calls EXCEPT ![p] =
                done(c, ResBool(exists(store, getSessionKey(c.userId)) = 1), "")]
        /\ UNCHANGED <<conn, store, now>>

\* const keys = await this.client.keys(`${SESSION_PREFIX}*`); return keys.map(...)
KeysReply(p) ==
    LET c == calls[p]
    IN  /\ c.pc = "keys"
        /\ sock = "ready"
        /\ \E ks \in Orders(keys(store, SESSION_PREFIX)) :
              calls' = [calls EXCEPT ![p] = done(c, ResList(stripPrefix(ks)), "")]
        /\ UNCHANGED <<conn, store, now>>

\* a round-trip is rejected: the command has no effect and the await throws
StoreFail(p) ==
    LET c == calls[p]
    IN  /\ c.pc \in Pending
        /\ calls' = [calls EXCEPT ![p] =
                CASE c.pc \in {"get", "refresh"} -> getSessionCatch(c)
                  [] c.pc = "write" -> saveSessionCatch(c)
                  [] c.pc = "del" -> deleteSessionCatch(c)
                  [] c.pc = "exists" -> hasSessionCatch(c)
                  [] c.pc = "keys" -> listSessionsCatch(c)]
        /\ UNCHANGED <<conn, store, now>>

----------------------------------------------------------------------------
(* Actions: the connection (connect, the client's reconnect loop, disconnect) *)

svc == <<store, now, calls>>

\* ConnectCall without the `if (!this.enabled) return`
ConnectCallUnguarded ==
    /\ plugin = "constructed"
    /\ client' = TRUE
    /\ sock' = "connecting"
    /\ retries' = 0
    /\ plugin' = "connecting"
    /\ UNCHANGED <<life, enabled, store, now, calls>>

\* browserSessionPlugin: await persistenceService.connect(), up to client.connect()
ConnectCall ==
    /\ plugin = "constructed"
    /\ IF ~enabled
       THEN /\ plugin' = "registered"
            /\ life' = [life EXCEPT !.connect = "normal"]
            /\ UNCHANGED <<client, sock, retries>>
       ELSE /\ client' = TRUE
            /\ sock' = "connecting"
            /\ retries' = 0
            /\ plugin' = "connecting"
            /\ UNCHANGED life
    /\ UNCHANGED <<enabled, svc>>

\* client.connect() resolves; the plugin registers the services
ConnectOk ==
    /\ plugin = "connecting"
    /\ sock = "connecting"
    /\ sock' = "ready"
    /\ plugin' = "registered"
    /\ life' = [life EXCEPT !.connect = "normal"]
    /\ UNCHANGED <<enabled, client, retries, svc>>

\* AttemptFail whose catch in connect() logs and leaves this.enabled as it is
AttemptFailKeepEnabled ==
    /\ sock \in {"connecting", "reconnecting"}
    /\ IF reconnectStrategy(retries) < 0
       THEN /\ sock' = "closed"
            /\ UNCHANGED retries
            /\ IF plugin = "connecting"
               THEN /\ plugin' = "registered"
                    /\ life' = [life EXCEPT !.connect = "normal"]
                    /\ UNCHANGED enabled
               ELSE UNCHANGED <<enabled, plugin, life>>
       ELSE /\ retries' = retries + 1
            /\ UNCHANGED <<sock, enabled, plugin, life>>
    /\ UNCHANGED <<client, store, now, calls>>

\* an attempt of the (re)connect loop fails and reconnectStrategy is asked.
\* A delay: the loop tries again.  The Error: the socket closes for good; when
\* that ends the first client.connect(), connect() catches it and clears enabled.
AttemptFail ==
    /\ sock \in {"connecting", "reconnecting"}
    /\ IF reconnectStrategy(retries) < 0
       THEN /\ sock' = "closed"
            /\ UNCHANGED retries
            /\ IF plugin = "connecting"
               THEN /\ enabled' = FALSE
                    /\ plugin' = "registered"
                    /\ life' = [life EXCEPT !.connect = "normal"]
               ELSE UNCHANGED <<enabled, plugin, life>>
       ELSE /\ retries' = retries + 1
            /\ UNCHANGED <<sock, enabled, plugin, life>>
    /\ UNCHANGED <<client, svc>>

\* the transport drops: the client starts reconnecting
Drop ==
    /\ sock = "ready"
    /\ sock' = "reconnecting"
    /\ retries' = 0
    /\ UNCHANGED <<enabled, client, plugin, life, svc>>

ReconnectOk ==
    /\ sock = "reconnecting"
    /\ sock' = "ready"
    /\ UNCHANGED <<enabled, client, retries, plugin, life, svc>>

\* onClose: await persistenceService.disconnect(), up to the reply to QUIT.
\* quit() on a client whose socket is closed throws at once, into the catch.
DisconnectCall ==
    /\ plugin = "registered"
    /\ IF client /\ isOpen
       THEN /\ plugin' = "closing"
            /\ UNCHANGED life
       ELSE /\ plugin' = "closed"
            /\ life' = [life EXCEPT !.disconnect = "normal"]
    /\ UNCHANGED <<enabled, client, sock, retries, svc>>

\* the store answers QUIT and the socket closes
QuitReply ==
    /\ plugin = "closing"
    /\ sock = "ready"
    /\ sock' = "closed"
    /\ plugin' = "closed"
    /\ life' = [life EXCEPT !.disconnect = "normal"]
    /\ UNCHANGED <<enabled, client, retries, svc>>

\* quit() is rejected; disconnect() catches and logs
QuitFail ==
    /\ plugin = "closing"
    /\ plugin' = "closed"
    /\ life' = [life EXCEPT !.disconnect = "normal"]
    /\ UNCHANGED <<enabled, client, sock, retries, svc>>

----------------------------------------------------------------------------
(* Actions: the environment of the store *)

Window == SESSION_TTL - 1

\* the store drops the keys whose time has come
expire(s, t) == [k \in {j \in DOMAIN s : s[j].exp > t} |-> s[k]]

\* a second passes
Tick ==
    /\ now % Window < MaxTicks
    /\ now' = now + 1
    /\ store' = expire(store, now')
    /\ UNCHANGED <<conn, calls>>

\* all but a second of a TTL window passes
Jump ==
    /\ now \div Window < MaxJumps
    /\ now' = now + Window
    /\ store' = expire(store, now')
    /\ UNCHANGED <<conn, calls>>

OtherKey == "other:key"
ForeignKeys == {getSessionKey(u) : u \in UserIds} \cup {OtherKey}

\* another client of the same store, or corruption, leaves a value that is
\* not a record under a key
ForeignWrite ==
    /\ \E k \in ForeignKeys : store' = setEx(store, k, SESSION_TTL, Garbage)
    /\ UNCHANGED <<conn, now, calls>>

----------------------------------------------------------------------------
(* History, kept in sequential runs *)

NoHist == [op |-> "none", userId |-> "", payload |-> NoPayload, at |-> 0, wasEnabled |-> FALSE]

Summary(c) == [op |-> c.op, userId |-> c.userId, payload |-> c.payload, at |-> c.at,
               wasEnabled |-> c.wasEnabled]

\* hist: the call whose result caller p held when it called again
\* lastMut: the save or delete that has just completed with the service enabled
HistUpdate(p) ==
    /\ hist' = IF calls[p].pc = "done" /\ calls'[p] # calls[p] THEN Summary(calls[p]) ELSE hist
    /\ lastMut' = [u \in UserIds |->
                     IF /\ calls'[p] # calls[p]
                        /\ calls'[p].pc = "done"
                        /\ calls'[p].userId = u
                        /\ calls'[p].wasEnabled
                        /\ calls'[p].op \in {"saveSession", "deleteSession"}
                     THEN calls'[p].op
                     ELSE lastMut[u]]

\* lastSave: the payload of the saveSession whose setEx the store has just answered
SaveUpdate ==
    lastSave' = [u \in UserIds |->
                   IF \E p \in Callers : /\ calls[p].pc = "write"
                                         /\ calls[p].userId = u
                                         /\ calls'[p].log = "Session data saved to Redis"
                   THEN calls[CHOOSE p \in Callers :
                                 /\ calls[p].pc = "write"
                                 /\ calls[p].userId = u
                                 /\ calls'[p].log = "Session data saved to Redis"].payload
                   ELSE lastSave[u]]

----------------------------------------------------------------------------
(* Specifications *)

Init ==
    /\ enabled \in BOOLEAN          \* env.ENABLE_SESSION_PERSISTENCE
    /\ client = FALSE
    /\ sock = "none"
    /\ retries = 0
    /\ plugin = "constructed"
    /\ life = [connect |-> "none", disconnect |-> "none"]
    /\ store = << >>
    /\ now = 0
    /\ calls = [p \in Callers |-> Idle]
    /\ hist = NoHist
    /\ lastMut = [u \in UserIds |-> "none"]
    /\ lastSave = [u \in UserIds |-> NoPayload]

Answer(p) ==
    \/ GetReply(p) \/ RefreshReply(p) \/ WriteReply(p)
    \/ DelReply(p) \/ ExistsReply(p) \/ KeysReply(p)

\* One caller; round-trips may be rejected; the clock runs and keys expire.
Next ==
    /\ \/ Call(1, PayloadsJSON) \/ Answer(1) \/ StoreFail(1)
       \/ ConnectCall \/ ConnectOk
       \/ Tick \/ Jump
    /\ UNCHANGED <<hist, lastMut, lastSave>>

Spec == Init /\ [][Next]_vars

\* One caller, one operation after the other; no round-trip is rejected and
\* no key expires.
NextSeq ==
    /\ \/ Call(1, Payloads) \/ Answer(1)
       \/ ConnectCall \/ ConnectOk \/ DisconnectCall
       \/ Tick
    /\ HistUpdate(1)
    /\ UNCHANGED lastSave

SpecSeq == Init /\ [][NextSeq]_vars

\* Several callers in flight together; round-trips may be rejected; the
\* clock stands.
NextRace ==
    /\ \/ \E p \in Callers : Call(p, PayloadsJSON) \/ Answer(p) \/ StoreFail(p)
       \/ ConnectCall \/ ConnectOk
    /\ UNCHANGED <<hist, lastMut>>
    /\ SaveUpdate

SpecRace == Init /\ [][NextRace]_vars

\* Several callers in flight together while the clock runs; no round-trip is
\* rejected.
NextFrame ==
    /\ \/ \E p \in Callers : Call(p, {PayloadA}) \/ Answer(p)
       \/ ConnectCall \/ ConnectOk
       \/ Tick
    /\ UNCHANGED <<hist, lastMut, lastSave>>

SpecFrame == Init /\ [][NextFrame]_vars

\* One caller while the clock runs, over a store that also holds values the
\* service did not write; round-trips may be rejected.
NextRead ==
    /\ \/ Call(1, {PayloadA}) \/ Answer(1) \/ StoreFail(1)
       \/ ConnectCall \/ ConnectOk
       \/ Tick
       \/ ForeignWrite
    /\ UNCHANGED <<hist, lastMut, lastSave>>

SpecRead == Init /\ [][NextRead]_vars

\* The connection's whole life (the reconnect loop and its giving up), one
\* caller, and a store that also holds values the service did not write.
NextConn ==
    /\ \/ Call(1, {PayloadA}) \/ Answer(1) \/ StoreFail(1)
       \/ ConnectCall \/ ConnectOk \/ AttemptFail \/ Drop \/ ReconnectOk
       \/ DisconnectCall \/ QuitReply \/ QuitFail
       \/ ForeignWrite
    /\ UNCHANGED <<hist, lastMut, lastSave>>

SpecConn == Init /\ [][NextConn]_vars

\* The same, with the reconnect loop running: an attempt that does not
\* succeed fails (the socket's connect timeout), and the loop asks
\* reconnectStrategy.
SpecConnFair == SpecConn /\ WF_vars(AttemptFail /\ UNCHANGED <<hist, lastMut, lastSave>>)

\* The same, and a QUIT still waiting when the socket closes is rejected.
\* Nothing makes the store answer a command it has received.
SpecShutdown ==
    /\ SpecConnFair
    /\ WF_vars(sock = "closed" /\ QuitFail /\ UNCHANGED <<hist, lastMut, lastSave>>)

----------------------------------------------------------------------------
(* Properties *)

Key(u) == getSessionKey(u)
\* the createdAt of a stored record
CreatedAt(e) == Prop(JSONparse(e.val), "createdAt")
Saved == "Session data saved to Redis"
Completes(p) == calls'[p] # calls[p] /\ calls'[p].pc = "done"

NormalResult(c) ==
    CASE c.op \in {"saveSession", "deleteSession"} -> c.result = ResVoid
      [] c.op = "getSession" -> c.result.t \in {"record", "null"}
      [] c.op = "hasSession" -> c.result.t = "boolean"
      [] c.op = "listSessions" -> c.result.t = "list"

NoPersistence(c) ==
    CASE c.op \in {"saveSession", "deleteSession"} -> ResVoid
      [] c.op = "getSession" -> ResNull
      [] c.op = "hasSession" -> ResBool(FALSE)
      [] c.op = "listSessions" -> ResList(<< >>)

\* C1: in every reachable state (flag on or off, connect failed, connected,
\* dropped, given up, a round-trip rejected, a stored value that is not JSON)
\* every completed operation holds a normal result of its type, and connect()
\* and disconnect() ended normally: none raised.
C1Theorem ==
    /\ \A p \in Callers : calls[p].pc = "done" => NormalResult(calls[p])
    /\ life.connect # "error"
    /\ life.disconnect # "error"

\* a getSession that met a stored value JSON.parse throws on, and returned null
C1Witness ==
    \E p \in Callers :
        /\ calls[p].op = "getSession"
        /\ calls[p].pc = "done"
        /\ calls[p].result = ResNull
        /\ calls[p].log = "Failed to retrieve session data"
        /\ Key(calls[p].userId) \in DOMAIN store
        /\ parseThrows(store[Key(calls[p].userId)].val)

\* C2: a call made while isEnabled() is false returns at once with its
\* no-persistence result and leaves the store (values and expiry) as it was.
C2Theorem ==
    [][\A p \in Callers :
          (calls[p].pc \in {"idle", "done"} /\ calls'[p] # calls[p] /\ ~isEnabled)
          => /\ calls'[p].pc = "done"
             /\ calls'[p].result = NoPersistence(calls'[p])
             /\ store' = store]_vars

\* a getSession refused, with the flag on, for a userId whose record is stored
C2Witness ==
    \E p \in Callers :
        /\ calls[p].op = "getSession"
        /\ calls[p].pc = "done"
        /\ ~calls[p].wasEnabled
        /\ enabled
        /\ Key(calls[p].userId) \in DOMAIN store

\* JSON.parse(JSON.stringify(v)) is v again
JsonSafe(pl) == \A f \in {"sessionData", "fingerprint", "userAgent"} : jsonValue(pl[f]) = pl[f]

SameAsSaved(r, u, pl) ==
    /\ Prop(r, "userId") = Str(u)
    /\ Prop(r, "sessionData") = pl.sessionData
    /\ Prop(r, "fingerprint") = pl.fingerprint
    /\ Prop(r, "userAgent") = pl.userAgent

\* caller 1 holds the result of a getSession(u) called right after a saveSession(u, ...)
SaveThenGet(c) ==
    /\ c.op = "getSession"
    /\ c.pc = "done"
    /\ c.wasEnabled
    /\ hist.op = "saveSession"
    /\ hist.wasEnabled
    /\ hist.userId = c.userId

RoundTrip(c) ==
    /\ c.result.t = "record"
    /\ SameAsSaved(c.result.v, c.userId, hist.payload)
    /\ Prop(c.result.v, "lastAccessed").iso >= hist.at

\* C3 as claimed: for every payload, a save followed at once by a get returns
\* the saved userId, sessionData, fingerprint and userAgent, with lastAccessed
\* at or after the save.
C3Original == SaveThenGet(calls[1]) => RoundTrip(calls[1])

\* C3, amended: the same for every payload that JSON serialisation preserves.
C3Theorem == (SaveThenGet(calls[1]) /\ JsonSafe(hist.payload)) => RoundTrip(calls[1])

\* a fingerprint and a user agent came back, read later than they were saved
C3Witness ==
    /\ SaveThenGet(calls[1])
    /\ hist.payload = PayloadB
    /\ calls[1].result.t = "record"
    /\ Prop(calls[1].result.v, "lastAccessed").iso > hist.at

\* C4: in a sequential run with no failure, the createdAt stored under a key
\* stays the one its first save wrote for as long as later saves and reads
\* follow, and a getSession returns that createdAt with the content of the
\* save before it.
C4Theorem ==
    [][\A u \in UserIds :
          /\ (Key(u) \in DOMAIN store /\ Key(u) \in DOMAIN store')
             => CreatedAt(store'[Key(u)]) = CreatedAt(store[Key(u)])
          /\ (/\ Completes(1)
              /\ calls'[1].op = "getSession"
              /\ calls'[1].userId = u
              /\ calls'[1].result.t = "record")
             => /\ Prop(calls'[1].result.v, "createdAt") = CreatedAt(store'[Key(u)])
                /\ (hist.op = "saveSession" /\ hist.wasEnabled /\ hist.userId = u)
                   => Prop(calls'[1].result.v, "sessionData") = hist.payload.sessionData]_vars

\* a second save with another payload has completed, later than the createdAt
\* the key still carries
C4Witness ==
    /\ calls[1].op = "saveSession"
    /\ calls[1].pc = "done"
    /\ calls[1].wasEnabled
    /\ hist.op = "saveSession"
    /\ hist.wasEnabled
    /\ hist.userId = calls[1].userId
    /\ hist.payload # calls[1].payload
    /\ Key(calls[1].userId) \in DOMAIN store
    /\ CreatedAt(store[Key(calls[1].userId)]).iso < calls[1].at
    /\ JSONparse(store[Key(calls[1].userId)].val)["sessionData"] = calls[1].payload.sessionData

\* C5 as claimed: whenever a saveSession writes under a key that exists, with
\* round-trips free to fail, the createdAt stored there is carried forward.
C5Original ==
    [][\A p \in Callers :
          (/\ calls[p].op = "saveSession"
           /\ calls[p].pc = "write"
           /\ Completes(p)
           /\ calls'[p].log = Saved
           /\ Key(calls[p].userId) \in DOMAIN store)
          => CreatedAt(store'[Key(calls[p].userId)]) = CreatedAt(store[Key(calls[p].userId)])]_vars

\* C6: a saveSession that wrote and a getSession that returns a record leave
\* the key with SESSION_TTL seconds; no key has more, every key has some; and
\* only a getSession's or a saveSession's write moves a key's expiry, so a key
\* neither read nor written for SESSION_TTL seconds is gone.
C6Theorem ==
    [][/\ \A p \in Callers :
            (/\ Completes(p)
             /\ \/ calls'[p].op = "saveSession" /\ calls'[p].log = Saved
                \/ calls'[p].op = "getSession" /\ calls'[p].result.t = "record")
            => /\ Key(calls'[p].userId) \in DOMAIN store'
               /\ store'[Key(calls'[p].userId)].exp - now' = SESSION_TTL
       /\ \A k \in DOMAIN store' :
            /\ store'[k].exp - now' > 0
            /\ store'[k].exp - now' <= SESSION_TTL
       /\ \A k \in DOMAIN store \cap DOMAIN store' :
            store'[k].exp # store[k].exp
            => \E p \in Callers : /\ calls[p].pc \in {"refresh", "write"}
                                  /\ Key(calls[p].userId) = k
                                  /\ calls'[p] # calls[p]]_vars

\* a record older than SESSION_TTL is returned: reads kept it alive
C6Witness ==
    \E p \in Callers :
        /\ calls[p].op = "getSession"
        /\ calls[p].pc = "done"
        /\ calls[p].result.t = "record"
        /\ now - Prop(calls[p].result.v, "createdAt").iso >= SESSION_TTL
        /\ store[Key(calls[p].userId)].exp - now = SESSION_TTL

\* C7: once a deleteSession(u) has completed, a getSession(u) returns null and
\* a hasSession(u) false until u is saved again; a deleteSession completes
\* normally and leaves no key, whether or not there was one.
C7Theorem ==
    LET c == calls[1]
    IN  c.pc = "done"
        => /\ (c.userId \in UserIds /\ lastMut[c.userId] = "deleteSession")
              => /\ c.op = "getSession" => c.result = ResNull
                 /\ c.op = "hasSession" => c.result = ResBool(FALSE)
           /\ c.op = "deleteSession"
              => /\ c.result = ResVoid
                 /\ c.wasEnabled => /\ c.log = "Session data deleted from Redis"
                                    /\ Key(c.userId) \notin DOMAIN store

\* a getSession right after the deleteSession of the same userId
C7Witness ==
    /\ calls[1].op = "getSession"
    /\ calls[1].pc = "done"
    /\ calls[1].wasEnabled
    /\ hist.op = "deleteSession"
    /\ hist.wasEnabled
    /\ hist.userId = calls[1].userId
    /\ calls[1].result = ResNull

\* a getSession(u) issued on the store as it is would return a record
WouldReturnRecord(u) == getSessionRead(begin("getSession", u, NoPayload), store, now).pc = "refresh"

\* C8 as claimed: hasSession(u) answers true exactly when a getSession(u) on
\* the same store would return a record, whatever the key holds.
C8Original ==
    [][\A p \in Callers :
          (calls[p].pc = "exists" /\ Completes(p) /\ calls'[p].log = "")
          => (calls'[p].result.v <=> WouldReturnRecord(calls[p].userId))]_vars

\* C9: in a sequential run with no failure and no expiry, listSessions
\* returns each userId whose last save or delete was a save, once, and the
\* keys built from what it returns are the keys of the store.
C9Theorem ==
    LET c == calls[1]
        l == c.result.v
    IN  (c.op = "listSessions" /\ c.pc = "done" /\ c.wasEnabled)
        => /\ {l[i] : i \in DOMAIN l} = {u \in UserIds : lastMut[u] = "saveSession"}
           /\ \A i, j \in DOMAIN l : l[i] = l[j] => i = j
           /\ {Key(l[i]) : i \in DOMAIN l} = DOMAIN store

\* one userId listed while another was saved and then deleted
C9Witness ==
    /\ calls[1].op = "listSessions"
    /\ calls[1].pc = "done"
    /\ calls[1].wasEnabled
    /\ Len(calls[1].result.v) = 1
    /\ \E u \in UserIds : lastMut[u] = "deleteSession"

\* C10: a getSession whose GET finds no key returns null and writes nothing.
C10Theorem ==
    [][\A p \in Callers :
          (/\ calls[p].op = "getSession"
           /\ calls[p].pc = "get"
           /\ calls'[p] # calls[p]
           /\ Key(calls[p].userId) \notin DOMAIN store)
          => /\ calls'[p].pc = "done"
             /\ calls'[p].result = ResNull
             /\ store' = store]_vars

\* a getSession found no key, a TTL window after the start
C10Witness ==
    \E p \in Callers :
        /\ calls[p].op = "getSession"
        /\ calls[p].pc = "done"
        /\ calls[p].log = "No persisted session found"
        /\ calls[p].result = ResNull
        /\ now >= SESSION_TTL
        /\ Key(calls[p].userId) \notin DOMAIN store

\* connect() has returned from its catch: a client was created and the flag cleared
ConnectFailed == client /\ ~enabled /\ plugin # "connecting"

\* a caller starts an operation in this step
Calls(p) == calls[p].pc \in {"idle", "done"} /\ calls'[p] # calls[p]

\* C11: when the first client.connect() fails, connect() returns normally with
\* the flag cleared and the plugin registers the services; from then on, in
\* every later state, isEnabled() is false (the connection is never open
\* again) and every operation called returns its no-persistence result at
\* once, the store untouched.
C11Theorem ==
    [][/\ (plugin = "connecting" /\ plugin' # "connecting" /\ sock' # "ready")
          => /\ ConnectFailed'
             /\ life'.connect = "normal"
             /\ plugin' = "registered"
       /\ ConnectFailed
          => /\ ConnectFailed'
             /\ ~isEnabled'
             /\ sock' # "ready"
             /\ \A p \in Callers :
                   Calls(p) => /\ calls'[p].pc = "done"
                               /\ calls'[p].result = NoPersistence(calls'[p])
                               /\ store' = store]_vars

\* after the failed connect, a saveSession was skipped and the plugin has
\* shut down
C11Witness ==
    /\ ConnectFailed
    /\ plugin = "closed"
    /\ calls[1].op = "saveSession"
    /\ calls[1].pc = "done"
    /\ calls[1].log = "Session persistence is disabled, skipping save"

\* the flag was off at construction and connect() did nothing
FlagOff == ~enabled /\ ~client

\* C12: with the flag off, connect() returns normally without creating a
\* client or starting a connection attempt; the flag stays off, no client and
\* no socket ever appear, isEnabled() is false, and every operation called
\* returns its no-persistence result.
C12Theorem ==
    [][FlagOff
       => /\ FlagOff'
          /\ sock' = "none"
          /\ retries' = 0
          /\ ~isEnabled'
          /\ plugin' # "connecting"
          /\ (plugin = "constructed" /\ plugin' # plugin)
             => plugin' = "registered" /\ life'.connect = "normal"
          /\ \A p \in Callers :
                Calls(p) => /\ calls'[p].pc = "done"
                            /\ calls'[p].result = NoPersistence(calls'[p])]_vars

\* with the flag off, connect() returned and a listSessions gave the empty list
C12Witness ==
    /\ FlagOff
    /\ life.connect = "normal"
    /\ calls[1].op = "listSessions"
    /\ calls[1].pc = "done"
    /\ calls[1].result = ResList(<< >>)

\* C13 as claimed: isEnabled() is false whenever no live connection is open:
\* before connect, while the transport is down and the client reconnects,
\* after reconnection gave up, after disconnect.
C13Original == sock \in {"none", "reconnecting", "closed"} => ~isEnabled

\* the sessionData, fingerprint and userAgent of a stored value
PayloadOf(e) == [f \in {"sessionData", "fingerprint", "userAgent"} |-> Prop(JSONparse(e.val), f)]

SaveInFlight(u) ==
    \E p \in Callers : calls[p].op = "saveSession" /\ calls[p].userId = u /\ calls[p].pc # "done"

\* C14 as claimed: under any interleaving of saveSession, getSession and
\* deleteSession, the value under a key is one record whose sessionData,
\* fingerprint and userAgent are the arguments of one saveSession call, and
\* once no saveSession is in flight they are those of the saveSession whose
\* write reached the store last.
C14Original ==
    \A u \in UserIds :
        Key(u) \in DOMAIN store
        => /\ ~parseThrows(store[Key(u)].val)
           /\ PayloadOf(store[Key(u)]) \in PayloadsJSON
           /\ ~SaveInFlight(u) => PayloadOf(store[Key(u)]) = lastSave[u]

\* the first half alone: every stored value is one record with the payload of
\* one saveSession call
WholeRecord ==
    \A u \in UserIds :
        Key(u) \in DOMAIN store
        => /\ ~parseThrows(store[Key(u)].val)
           /\ PayloadOf(store[Key(u)]) \in PayloadsJSON

\* what the store holds under a key: nothing, or a value and its expiry
Entry(s, k) == IF k \in DOMAIN s THEN <<s[k]>> ELSE << >>

\* C15: with callers in flight for several userIds, whatever the store holds
\* under the key of v (value, existence, expiry) changes only in a step of a
\* call made for v that writes or deletes, or when the key's time runs out;
\* and two userIds never share a key.
C15Theorem ==
    [][/\ \A v \in UserIds :
            (Entry(store', Key(v)) # Entry(store, Key(v)) /\ now' = now)
            => \E p \in Callers : /\ calls[p].userId = v
                                  /\ calls[p].pc \in {"refresh", "write", "del"}
                                  /\ calls'[p] # calls[p]
       /\ \A u, v \in UserIds : u # v => Key(u) # Key(v)]_vars

\* a getSession for one userId has refreshed its key while a call for the
\* other userId is in flight, and the two keys now expire at different times
C15Witness ==
    \E p, q \in Callers :
        /\ calls[p].op = "getSession"
        /\ calls[p].pc = "done"
        /\ calls[p].result.t = "record"
        /\ calls[q].pc \in Pending
        /\ calls[q].userId \in UserIds
        /\ calls[q].userId # calls[p].userId
        /\ Key(calls[q].userId) \in DOMAIN store
        /\ store[Key(calls[q].userId)].exp < store[Key(calls[p].userId)].exp

Min(a, b) == IF a < b THEN a ELSE b

\* C16: the reconnect loop asks reconnectStrategy with retries 0, 1, ...; for
\* 0..10 the answer is the delay min(100 * retries, 3000), never smaller than
\* the one before and never above 3000; above 10 it is the Error, on which the
\* socket closes.  A client that is reconnecting therefore comes to be ready
\* or closed, after at most 12 failed attempts; and a closed socket stays
\* closed, isEnabled() false, with no further attempt.
C16Theorem ==
    /\ [][
         /\ retries' \in 0..11
         /\ IF retries <= 10
            THEN /\ reconnectStrategy(retries) = Min(100 * retries, 3000)
                 /\ reconnectStrategy(retries) <= 3000
                 /\ retries > 0 => reconnectStrategy(retries) >= reconnectStrategy(retries - 1)
            ELSE reconnectStrategy(retries) = -1
         /\ (sock \in {"connecting", "reconnecting"} /\ sock' = "closed") => retries > 10
         /\ (sock \in {"connecting", "reconnecting"} /\ retries > 10 /\ sock' = sock)
            => retries' = retries
         /\ sock = "closed" => (sock' = "closed" /\ retries' = retries /\ ~isEnabled')
       ]_vars
    /\ (sock = "reconnecting") ~> (sock \in {"ready", "closed"})

\* after a drop, the reconnect loop has given up: the socket is closed, the
\* flag still on, and a call has been refused
C16Witness ==
    /\ sock = "closed"
    /\ retries = 11
    /\ enabled
    /\ plugin = "registered"
    /\ calls[1].pc = "done"
    /\ ~calls[1].wasEnabled

\* C17 as claimed: a saveSession changes the store in one step only, its final
\* write; the read of the existing record before it leaves the stored value
\* and its expiry as they were, so a saveSession whose final write fails has
\* changed nothing.
C17Original ==
    [][\A p \in Callers :
          (calls[p].op = "saveSession" /\ calls[p].pc # "write" /\ calls'[p] # calls[p])
          => store' = store]_vars

\* C18 as claimed: disconnect(), once the onClose hook has called it, returns,
\* also when the store never answers the QUIT.
C18Original == (plugin = "closing") ~> (plugin = "closed")

Retrieved == "Session data retrieved from Redis"

\* C19 as claimed: when the store answers the refresh write of a getSession,
\* the key is still there and keeps its sessionData, fingerprint, userAgent
\* and createdAt: the write replaces no payload a saveSession stored after the
\* read, and re-creates no key a deleteSession removed after the read.
C19Original ==
    [][\A p \in Callers :
          (/\ calls[p].op = "getSession"
           /\ calls[p].pc = "refresh"
           /\ calls'[p] # calls[p]
           /\ calls'[p].log = Retrieved)
          => LET k == Key(calls[p].userId)
             IN  /\ k \in DOMAIN store
                 /\ PayloadOf(store'[k]) = PayloadOf(store[k])
                 /\ CreatedAt(store'[k]) = CreatedAt(store[k])]_vars

\* the lastAccessed of a stored record
LastAccessed(e) == Prop(JSONparse(e.val), "lastAccessed")

\* every stored record was created no later than it was last accessed
CreatedBeforeAccessed == \A k \in DOMAIN store : CreatedAt(store[k]).iso <= LastAccessed(store[k]).iso

\* C20 as claimed: with one caller and a clock that advances between
\* round-trips, a write to a key that exists stores a lastAccessed at or after
\* the one it overwrites, and every stored record has createdAt <= lastAccessed.
C20Original ==
    [][/\ \A k \in DOMAIN store \cap DOMAIN store' :
            LastAccessed(store'[k]).iso >= LastAccessed(store[k]).iso
       /\ CreatedBeforeAccessed']_vars

\* C21: no step of a hasSession or of a listSessions changes the store: every
\* value, the set of keys and every key's expiry stay as they were, so the
\* time a key has left is not extended; and a getSession whose GET returns a
\* value JSON.parse throws on returns null with the store unchanged.
C21Theorem ==
    [][\A p \in Callers :
          /\ (calls'[p] # calls[p] /\ calls'[p].op \in {"hasSession", "listSessions"})
             => store' = store
          /\ (/\ calls[p].op = "getSession"
              /\ calls[p].pc = "get"
              /\ calls'[p] # calls[p]
              /\ Key(calls[p].userId) \in DOMAIN store
              /\ parseThrows(store[Key(calls[p].userId)].val))
             => /\ calls'[p].pc = "done"
                /\ calls'[p].result = ResNull
                /\ store' = store]_vars

\* a hasSession answered true for a key that has been running down since it
\* was written, and is still running down
C21Witness ==
    \E p \in Callers :
        /\ calls[p].op = "hasSession"
        /\ calls[p].pc = "done"
        /\ calls[p].result = ResBool(TRUE)
        /\ Key(calls[p].userId) \in DOMAIN store
        /\ ttlOf(store, Key(calls[p].userId)) < SESSION_TTL

====
